---- MODULE Spec2Model ----
(***************************************************************************)
(* Binlog replication of one tracked table: tap_mysql/sync_strategies/     *)
(* binlog.py.  sync_table is a generator; the model follows it from one    *)
(* suspension point to the next (the pull from the reader, each yield).    *)
(***************************************************************************)
EXTENDS Integers, Sequences, FiniteSets, TLC

\* ------------------------------------------------------------------ bounds
MaxEvents == 2          \* events the server appends to the binary log
MaxRows == 2            \* rows of one row event

\* --------------------------------------------------------------- constants
UPDATE_BOOKMARK_PERIOD == 1000
SDC_DELETED_AT == "_sdc_deleted_at"
None == 0               \* an absent bookmark field

\* catalog_entry.database, catalog_entry.stream
table_path == <<"db", "t">>
\* row events of other tables: the same table name in another schema (every
\* kind), another table of the tracked schema
OtherTables == ({"WriteRowsEvent", "UpdateRowsEvent", "DeleteRowsEvent"} \X {<<"db2", "t">>})
                 \cup {<<"WriteRowsEvent", <<"db", "u">>>>}

RowKinds == {"WriteRowsEvent", "UpdateRowsEvent", "DeleteRowsEvent"}

\* the (schema, table) a RotateEvent is read with
RotateAttributions == {<<"", "">>, table_path}

\* The selected-column lists a caller passes (with or without the automatic
\* property add_automatic_properties appends).
ColumnLists == {<<"id">>, <<"id", SDC_DELETED_AT>>}

VARIABLES
    server,         \* what the source answers to the introspection queries
    columns,        \* sync_table's columns argument
    binlog,         \* the source's binary log from the original bookmark on
    state,          \* the stream's bookmark inside the singer state
    log_file,       \* sync_table local: bookmark log_file at session start
    log_pos,        \* sync_table local: bookmark log_pos at session start
    stream_version, \* sync_table local
    reader,         \* the BinLogStreamReader
    row,            \* index of the row the row loop is at
    rows_saved,     \* sync_table local
    out,            \* the messages this session has yielded, in order
    pc,             \* where the generator is suspended
    error,          \* the exception that ended the, "" when none
    persisted,      \* the state the consumer holds: the last checkpoint yielded
    delivered,      \* <<event, row>> pairs a Record was yielded for, in any session
    orig            \* the state the first session was started with

vars == <<server, columns, binlog, state, log_file, log_pos, stream_version,
          reader, row, rows_saved, out, pc, error, persisted, delivered,
          orig>>

\* ------------------------------------------------------------ coordinates
Coord(f, p) == [log_file |-> f, log_pos |-> p]
CoordOf(r) == Coord(r.log_file, r.log_pos)
\* the order of the source's log sequence: by file, then by offset
CoordLt(a, b) ==
    \/ a.log_file < b.log_file
    \/ a.log_file = b.log_file /\ a.log_pos < b.log_pos
CoordLe(a, b) == a = b \/ CoordLt(a, b)

InList(k, list) == \E j \in 1..Len(list) : list[j] = k

\* ------------------------------------------------------------ the source
\* SHOW BINARY LOGS answers: the files 1..MaxEvents+1 (one more than the
\* rotations the log can hold) all of one size, or nothing.
LogListing(size) == [f \in 1..(MaxEvents + 1) |-> <<f, size>>]
Listings == {<< >>, LogListing(0), LogListing(MaxEvents + 2)}
Servers ==
    [binlog_format : {"ROW", "MIXED"},
     binlog_row_image : {"FULL", "MINIMAL"},
     binary_logs : Listings]

\* the coordinate the log has reached: the last event's, or the original bookmark
LastCoord == IF binlog = << >> THEN CoordOf(orig) ELSE CoordOf(binlog[Len(binlog)])

\* A rotation to the next file; as the first event of the stream also the
\* rotation that names the file and offset the stream was opened at.
\* A RotateEvent names no table; RotateAttributions also has one that reads as
\* the tracked table's.
RotateEvents ==
    LET targets == {Coord(LastCoord.log_file + 1, 0)}
                     \cup (IF binlog = << >> THEN {LastCoord} ELSE {})
    IN  {[kind |-> "RotateEvent", schema |-> a[1], table |-> a[2],
          log_file |-> c.log_file, log_pos |-> c.log_pos,
          timestamp |-> 0, nrows |-> 0, narrow |-> 0] :
             c \in targets, a \in RotateAttributions}

\* A row event ends in the current file, past the previous event; the first
\* event of the log may be the one the original bookmark was taken at.
\* narrow = i > 0: row i carries only the column "name" (the last row of a
\* longest event, or no row).
RowEvents ==
    LET positions == {LastCoord.log_pos + 1}
                       \cup (IF binlog = << >> THEN {LastCoord.log_pos} ELSE {})
        payloads == ((1..MaxRows) \X {0}) \cup {<<MaxRows, MaxRows>>}
        tracked == {[kind |-> k, schema |-> table_path[1], table |-> table_path[2],
                     log_file |-> LastCoord.log_file, log_pos |-> p,
                     timestamp |-> 100 + p, nrows |-> nb[1], narrow |-> nb[2]] :
                        k \in RowKinds, p \in positions, nb \in payloads}
        others == {[kind |-> t[1], schema |-> t[2][1], table |-> t[2][2],
                    log_file |-> LastCoord.log_file, log_pos |-> p,
                    timestamp |-> 100 + p, nrows |-> 1, narrow |-> 0] :
                        p \in positions, t \in OtherTables}
    IN  tracked \cup others

NextEvents == RotateEvents \cup RowEvents

\* row payloads of event e of the log
RowFields(e, i) == IF binlog[e].narrow = i THEN {"name"} ELSE {"id", "name"}
values(e, i) == [f \in RowFields(e, i) |-> <<"values", e, i>>]
before_values(e, i) == [f \in RowFields(e, i) |-> <<"before_values", e, i>>]
after_values(e, i) == [f \in RowFields(e, i) |-> <<"after_values", e, i>>]

\* the row image goes unchecked
verify_binlog_config_FormatOnly(srv) ==
    IF srv.binlog_format # "ROW" THEN "BadBinlogFormat" ELSE ""

\* a position equal to the recorded size is rejected too
verify_log_file_exists_TailRejected(srv, file, pos) ==
    LET existing_log_file == SelectSeq(srv.binary_logs, LAMBDA log : log[1] = file)
    IN  IF existing_log_file = << >> THEN "LogFileMissing"
        ELSE IF pos >= existing_log_file[1][2] THEN "PositionAheadOfTail"
        ELSE ""

\* -------------------------------------------------------------- verifier
verify_binlog_config(srv) ==
    IF srv.binlog_format # "ROW" THEN "BadBinlogFormat"
    ELSE IF srv.binlog_row_image # "FULL" THEN "BadBinlogRowImage"
    ELSE ""

verify_log_file_exists(srv, file, pos) ==
    LET existing_log_file == SelectSeq(srv.binary_logs, LAMBDA log : log[1] = file)
    IN  IF existing_log_file = << >> THEN "LogFileMissing"
        ELSE IF pos > existing_log_file[1][2] THEN "PositionAheadOfTail"
        ELSE ""

\* common.get_stream_version: the bookmarked version, or a fresh one
get_stream_version(st) == IF st.version # None THEN st.version ELSE Len(binlog) + 1

\* ---------------------------------------------------------------- messages
ActivateVersionMessage(version) ==
    [type |-> "ACTIVATE_VERSION", stream |-> table_path[2], version |-> version]

\* the dict comprehension of row_to_singer_record
filtered_vals(vals, cols) ==
    [k \in {k \in DOMAIN vals : InList(k, cols)} |-> vals[k]]

\* zip(*filtered_vals.items()) cannot be unpacked when nothing is left
row_to_singer_record_raises(vals, cols) == DOMAIN filtered_vals(vals, cols) = {}

\* ev, row: the event and row the record was built from
row_to_singer_record(version, vals, cols, e, i) ==
    [type |-> "RECORD", stream |-> table_path[2], version |-> version,
     values |-> filtered_vals(vals, cols), ev |-> e, row |-> i]

\* datetime.utcfromtimestamp(binlog_event.timestamp).replace(tzinfo=pytz.UTC)
event_ts(e) == <<"UTC", binlog[e].timestamp>>

\* line 193 left out: the row's values as they are, for every kind
RowVals_Untagged(e, i) ==
    IF binlog[e].kind = "UpdateRowsEvent" THEN after_values(e, i) ELSE values(e, i)

\* the vals handed to row_to_singer_record for row i of event e
RowVals(e, i) ==
    CASE binlog[e].kind = "WriteRowsEvent" -> values(e, i)
      [] binlog[e].kind = "UpdateRowsEvent" -> after_values(e, i)
      [] binlog[e].kind = "DeleteRowsEvent" ->
            [f \in RowFields(e, i) \cup {SDC_DELETED_AT} |->
                IF f = SDC_DELETED_AT THEN event_ts(e) ELSE values(e, i)[f]]

\* copy.deepcopy(state) in a StateMessage; ev, line: the event being
\* processed and the yield statement
\* value=state: the message holds the live state dict itself
StateMessage_SameObject(st, e, line) ==
    [type |-> "STATE", value |-> st, copied |-> FALSE, ev |-> e, line |-> line]

\* copied: the value is an object of its own, not the live state dict that
\* singer.write_bookmark writes into
StateMessage(st, e, line) ==
    [type |-> "STATE", value |-> st, copied |-> TRUE, ev |-> e, line |-> line]

\* ------------------------------------------------------------------- Init
NoReader == [constructed |-> FALSE, idx |-> 0, log_file |-> 0, log_pos |-> 0]

InitFrom(srvs, lists, logs, bookmarks) ==
    /\ server \in srvs
    /\ columns \in lists
    /\ binlog \in logs
    /\ state \in bookmarks
    /\ log_file = 0
    /\ log_pos = 0
    /\ stream_version = None
    /\ reader = NoReader
    /\ row = 0
    /\ rows_saved = 0
    /\ out = << >>
    /\ pc = "init"
    /\ error = ""
    /\ persisted = state
    /\ delivered = {}
    /\ orig = state

InitWith(srvs, lists, logs) ==
    InitFrom(srvs, lists, logs, {[log_file |-> 1, log_pos |-> 1, version |-> None]})

Init == InitWith(Servers, ColumnLists, {<< >>})

\* Sessions started from bookmarks in either of two files, before, at and past
\* the size the listing records: listings of nothing, of one file, of two.
VerifyListings == {<< >>, <<<<1, 1>>, <<2, 2>>>>, <<<<2, 0>>>>}
VerifyServers ==
    [binlog_format : {"ROW", "MIXED"},
     binlog_row_image : {"FULL", "MINIMAL"},
     binary_logs : VerifyListings]
VerifyBookmarks == [log_file : 1..2, log_pos : 0..2, version : {None}]

InitVerify == InitFrom(VerifyServers, {<<"id">>}, {<< >>}, VerifyBookmarks)

\* A log of WriteRowsEvents of the tracked table, sizes[k] rows in the k-th,
\* the first ending at offset first of file 1.
WriteBatches(first, sizes) ==
    [k \in 1..Len(sizes) |->
        [kind |-> "WriteRowsEvent", schema |-> table_path[1], table |-> table_path[2],
         log_file |-> 1, log_pos |-> first + k - 1, timestamp |-> 100 + first + k - 1,
         nrows |-> sizes[k], narrow |-> 0]]

\* Sessions over logs that are already long: 2500 rows in one event, and a
\* thousand rows behind the event the bookmark was taken at.
CadenceLogs ==
    {WriteBatches(2, <<2500>>),
     WriteBatches(1, <<1, 1000>>)}

InitCadence ==
    InitWith({srv \in Servers : srv.binlog_format = "ROW" /\ srv.binary_logs # << >>},
             {<<"id">>}, CadenceLogs)

\* ------------------------------------------------------------ sync_table
\* The reader opened at (file, pos) replays the events at or after it.
ReplayFrom(file, pos) ==
    Cardinality({e \in 1..Len(binlog) : CoordLt(CoordOf(binlog[e]), Coord(file, pos))})

VerifyError(srv, file, pos) ==
    IF verify_binlog_config(srv) # "" THEN verify_binlog_config(srv)
    ELSE verify_log_file_exists(srv, file, pos)

\* the fresh version is announced but not written into the bookmark
Start_VersionNotWritten ==
    /\ pc = "init"
    /\ log_file' = state.log_file
    /\ log_pos' = state.log_pos
    /\ VerifyError(server, log_file', log_pos') = ""
    /\ stream_version' = get_stream_version(state)
    /\ out' = Append(out, ActivateVersionMessage(stream_version'))
    /\ reader' = [constructed |-> TRUE, idx |-> ReplayFrom(log_file', log_pos'),
                  log_file |-> log_file', log_pos |-> log_pos']
    /\ rows_saved' = 0
    /\ pc' = "pull"
    /\ UNCHANGED <<server, columns, binlog, state, row, error, persisted,
                   delivered, orig>>

\* lines 104-146, when both verifications pass
Start ==
    /\ pc = "init"
    /\ log_file' = state.log_file
    /\ log_pos' = state.log_pos
    /\ VerifyError(server, log_file', log_pos') = ""
    /\ stream_version' = get_stream_version(state)
    /\ state' = [state EXCEPT !.version = stream_version']
    /\ out' = Append(out, ActivateVersionMessage(stream_version'))
    /\ reader' = [constructed |-> TRUE, idx |-> ReplayFrom(log_file', log_pos'),
                  log_file |-> log_file', log_pos |-> log_pos']
    /\ rows_saved' = 0
    /\ pc' = "pull"
    /\ UNCHANGED <<server, columns, binlog, row, error, persisted,
                   delivered, orig>>

\* lines 104-113, when a verification raises
StartRaise ==
    /\ pc = "init"
    /\ log_file' = state.log_file
    /\ log_pos' = state.log_pos
    /\ VerifyError(server, log_file', log_pos') # ""
    /\ error' = VerifyError(server, log_file', log_pos')
    /\ pc' = "failed"
    /\ UNCHANGED <<server, columns, binlog, state, stream_version, reader, row,
                   rows_saved, out, persisted, delivered, orig>>

\* The events the next pull can return: the next one of the log, or, at its
\* end, one the source appends meanwhile.
Pullable ==
    IF reader.idx < Len(binlog) THEN {binlog[reader.idx + 1]}
    ELSE IF Len(binlog) < MaxEvents THEN NextEvents
    ELSE {}

\* next(reader): the reader moves to the event's end, a rotation moves it to
\* the rotation target
Fetch(ev) ==
    /\ pc = "pull"
    /\ ev \in Pullable
    /\ binlog' = IF reader.idx < Len(binlog) THEN binlog ELSE Append(binlog, ev)
    /\ reader' = [reader EXCEPT !.idx = reader.idx + 1,
                                !.log_file = ev.log_file,
                                !.log_pos = ev.log_pos]

\* the offsets compared with < instead of ==
SkipCheck_Before(rd, file, pos) == rd.log_file = file /\ rd.log_pos < pos

\* the log file left out of the comparison
SkipCheck_PosOnly(rd, file, pos) == rd.log_pos = pos

\* line 149
SkipCheck(rd, file, pos) == rd.log_file = file /\ rd.log_pos = pos

\* the schema left out of the comparison
IsTracked_TableOnly(ev) == ev.kind # "RotateEvent" /\ ev.table = table_path[2]

\* line 155, line 165
IsRotate(ev) == ev.kind = "RotateEvent"
IsTracked(ev) == ~IsRotate(ev) /\ <<ev.schema, ev.table>> = table_path

\* binlog_event.next_binlog, binlog_event.position
next_binlog(ev) == ev.log_file
position(ev) == ev.log_pos

\* the event the loop body is processing
binlog_event == binlog[reader.idx]

\* lines 148-153: the pulled event ends where the session started
PullSkip ==
    \E ev \in Pullable :
        /\ Fetch(ev)
        /\ SkipCheck(reader', log_file, log_pos)
        /\ pc' = "pull"
        /\ UNCHANGED <<server, columns, state, log_file, log_pos, stream_version,
                       row, rows_saved, out, error, persisted,
                       delivered, orig>>

\* a rotation goes on to the position advance and threshold test of lines 202-213
PullRotate_Threshold ==
    \E ev \in Pullable :
        /\ Fetch(ev)
        /\ ~SkipCheck(reader', log_file, log_pos)
        /\ IsRotate(ev)
        /\ state' = [state EXCEPT !.log_file = next_binlog(ev),
                                  !.log_pos = position(ev)]
        /\ pc' = "post"
        /\ UNCHANGED <<server, columns, log_file, log_pos, stream_version, row,
                       rows_saved, out, error, persisted, delivered,
                       orig>>

\* lines 148-163
PullRotate ==
    \E ev \in Pullable :
        /\ Fetch(ev)
        /\ ~SkipCheck(reader', log_file, log_pos)
        /\ IsRotate(ev)
        /\ state' = [state EXCEPT !.log_file = next_binlog(ev),
                                  !.log_pos = position(ev)]
        /\ pc' = "yield_state"
        /\ UNCHANGED <<server, columns, log_file, log_pos, stream_version, row,
                       rows_saved, out, error, persisted, delivered,
                       orig>>

\* the bookmark is moved and the checkpoint yielded before the rows
PullRows_CheckpointFirst ==
    \E ev \in Pullable :
        /\ Fetch(ev)
        /\ ~SkipCheck(reader', log_file, log_pos)
        /\ IsTracked(ev)
        /\ row' = 1
        /\ pc' = "row"
        /\ state' = [state EXCEPT !.log_file = reader'.log_file,
                                  !.log_pos = reader'.log_pos]
        /\ out' = Append(out, StateMessage(state', reader'.idx, 215))
        /\ persisted' = state'
        /\ UNCHANGED <<server, columns, log_file, log_pos, stream_version,
                       rows_saved, error, delivered, orig>>

\* lines 148-166, 180, 188: a row event of the tracked table enters its row loop
PullRows ==
    \E ev \in Pullable :
        /\ Fetch(ev)
        /\ ~SkipCheck(reader', log_file, log_pos)
        /\ IsTracked(ev)
        /\ row' = 1
        /\ pc' = "row"
        /\ UNCHANGED <<server, columns, state, log_file, log_pos, stream_version,
                       rows_saved, out, error, persisted, delivered,
                       orig>>

\* a row event of another table goes back to the loop head, past line 215
PullOther_Continue ==
    \E ev \in Pullable :
        /\ Fetch(ev)
        /\ ~SkipCheck(reader', log_file, log_pos)
        /\ ~IsRotate(ev)
        /\ ~IsTracked(ev)
        /\ pc' = "pull"
        /\ UNCHANGED <<server, columns, state, log_file, log_pos, stream_version,
                       row, rows_saved, out, error, persisted, delivered, orig>>

\* lines 148-165: a row event of another table falls through to line 215
PullOther ==
    \E ev \in Pullable :
        /\ Fetch(ev)
        /\ ~SkipCheck(reader', log_file, log_pos)
        /\ ~IsRotate(ev)
        /\ ~IsTracked(ev)
        /\ pc' = "yield_state"
        /\ UNCHANGED <<server, columns, state, log_file, log_pos, stream_version,
                       row, rows_saved, out, error, persisted,
                       delivered, orig>>

\* line 148: the pull raises (connection loss, decode error)
PullRaise ==
    /\ pc = "pull"
    /\ pc' = "aborted"
    /\ error' = "StreamError"
    /\ UNCHANGED <<server, columns, binlog, state, log_file, log_pos,
                   stream_version, reader, row, rows_saved, out,
                   persisted, delivered, orig>>

\* line 148: the reader has nothing more to deliver and the loop ends
Exhausted ==
    /\ pc = "pull"
    /\ reader.idx = Len(binlog)
    /\ pc' = "done"
    /\ UNCHANGED <<server, columns, binlog, state, log_file, log_pos,
                   stream_version, reader, row, rows_saved, out, error, persisted, delivered, orig>>

\* lines 168-172, 182-186, 190-199: the record of one row is built and yielded,
\* or building it raises
EmitRow ==
    /\ pc = "row"
    /\ IF row_to_singer_record_raises(RowVals(reader.idx, row), columns)
       THEN /\ pc' = "aborted"
            /\ error' = "ValueError"
            /\ UNCHANGED <<out, delivered>>
       ELSE /\ out' = Append(out, row_to_singer_record(stream_version,
                                    RowVals(reader.idx, row), columns, reader.idx, row))
            /\ delivered' = delivered \cup {<<reader.idx, row>>}
            /\ pc' = "rowpost"
            /\ UNCHANGED error
    /\ UNCHANGED <<server, columns, binlog, state, log_file, log_pos,
                   stream_version, reader, row, rows_saved, persisted,
                   orig>>

\* lines 173-176: the bookmark write of the WriteRowsEvent loop
RowBookmark(st, ev, file) ==
    IF ev.kind = "WriteRowsEvent" THEN [st EXCEPT !.log_file = file] ELSE st

\* a checkpoint is yielded inside the row loop, after the write of lines 173-176
AfterRow_Checkpoint ==
    /\ pc = "rowpost"
    /\ state' = RowBookmark(state, binlog_event, log_file)
    /\ out' = Append(out, StateMessage(state', reader.idx, 213))
    /\ persisted' = state'
    /\ rows_saved' = rows_saved + 1
    /\ IF row < binlog_event.nrows
       THEN row' = row + 1 /\ pc' = "row"
       ELSE row' = row /\ pc' = "post"
    /\ UNCHANGED <<server, columns, binlog, log_file, log_pos, stream_version,
                   reader, error, delivered, orig>>

\* lines 173-177, 187, 200: the rest of the loop body, after the yield
AfterRow ==
    /\ pc = "rowpost"
    /\ state' = RowBookmark(state, binlog_event, log_file)
    /\ rows_saved' = rows_saved + 1
    /\ IF row < binlog_event.nrows
       THEN row' = row + 1 /\ pc' = "row"
       ELSE row' = row /\ pc' = "post"
    /\ UNCHANGED <<server, columns, binlog, log_file, log_pos, stream_version,
                   reader, out, error, persisted, delivered, orig>>

\* lines 167-177, 181-187, 189-200: the consumer drains the rest of the row
\* loop, two rows or more, in one go
RowLoop ==
    LET e == reader.idx
        rest == row..binlog_event.nrows
    IN  /\ pc = "row"
        /\ row < binlog_event.nrows
        /\ {i \in rest : row_to_singer_record_raises(RowVals(e, i), columns)} = {}
        /\ out' = out \o [j \in 1..(binlog_event.nrows - row + 1) |->
                      row_to_singer_record(stream_version, RowVals(e, row + j - 1),
                                           columns, e, row + j - 1)]
        /\ delivered' = delivered \cup {<<e, i>> : i \in rest}
        /\ state' = RowBookmark(state, binlog_event, log_file)
        /\ rows_saved' = rows_saved + (binlog_event.nrows - row + 1)
        /\ row' = binlog_event.nrows
        /\ pc' = "post"
        /\ UNCHANGED <<server, columns, binlog, log_file, log_pos,
                       stream_version, reader, error, persisted, orig>>

\* line 212
ThresholdReached(n) == n % UPDATE_BOOKMARK_PERIOD = 0

\* the threshold checkpoint is yielded before the writes of lines 202-210
PostEvent_CheckpointBeforeAdvance ==
    /\ pc = "post"
    /\ state' = [state EXCEPT !.log_file = reader.log_file,
                              !.log_pos = reader.log_pos]
    /\ IF ThresholdReached(rows_saved)
       THEN /\ out' = Append(out, StateMessage(state, reader.idx, 213))
            /\ persisted' = state
       ELSE UNCHANGED <<out, persisted>>
    /\ pc' = "yield_state"
    /\ UNCHANGED <<server, columns, binlog, log_file, log_pos, stream_version,
                   reader, row, rows_saved, error, delivered, orig>>

\* lines 202-213: the bookmark moves to the reader's coordinate, then the
\* threshold checkpoint
PostEvent ==
    /\ pc = "post"
    /\ state' = [state EXCEPT !.log_file = reader.log_file,
                              !.log_pos = reader.log_pos]
    /\ IF ThresholdReached(rows_saved)
       THEN /\ out' = Append(out, StateMessage(state', reader.idx, 213))
            /\ persisted' = state'
       ELSE UNCHANGED <<out, persisted>>
    /\ pc' = "yield_state"
    /\ UNCHANGED <<server, columns, binlog, log_file, log_pos, stream_version,
                   reader, row, rows_saved, error, delivered, orig>>

\* line 215 indented under the threshold test of line 212
Heartbeat_UnderThreshold ==
    /\ pc = "yield_state"
    /\ IF ThresholdReached(rows_saved)
       THEN /\ out' = Append(out, StateMessage(state, reader.idx, 215))
            /\ persisted' = state
       ELSE UNCHANGED <<out, persisted>>
    /\ pc' = "pull"
    /\ UNCHANGED <<server, columns, binlog, state, log_file, log_pos,
                   stream_version, reader, row, rows_saved, error, delivered,
                   orig>>

\* line 215
Heartbeat ==
    /\ pc = "yield_state"
    /\ out' = Append(out, StateMessage(state, reader.idx, 215))
    /\ persisted' = state
    /\ pc' = "pull"
    /\ UNCHANGED <<server, columns, binlog, state, log_file, log_pos,
                   stream_version, reader, row, rows_saved, error,
                   delivered, orig>>

\* What a holder of StateMessage m reads in it: the copy taken at the yield,
\* or the live state dict where the message holds that object.
value_of(m) == IF m.copied THEN m.value ELSE state

Running == {"pull", "row", "rowpost", "post", "yield_state"}

\* The session ends where it is (the process is shut down while the generator
\* is suspended, or the generator has raised or returned) and sync_table is
\* run again on the state the consumer persisted.
Resume ==
    /\ pc \in Running \cup {"aborted", "done"}
    /\ state' = persisted
    /\ log_file' = 0
    /\ log_pos' = 0
    /\ stream_version' = None
    /\ reader' = NoReader
    /\ row' = 0
    /\ rows_saved' = 0
    /\ out' = << >>
    /\ error' = ""
    /\ pc' = "init"
    /\ UNCHANGED <<server, columns, binlog, persisted, delivered, orig>>

Next ==
    \/ Start
    \/ StartRaise
    \/ PullSkip
    \/ PullRotate
    \/ PullRows
    \/ PullOther
    \/ PullRaise
    \/ Exhausted
    \/ EmitRow
    \/ AfterRow
    \/ RowLoop
    \/ PostEvent
    \/ Heartbeat

NextResume == Next \/ Resume

Spec == Init /\ [][Next]_vars

SpecResume == Init /\ [][NextResume]_vars

SpecCadence == InitCadence /\ [][Next]_vars

SpecVerify == InitVerify /\ [][Next]_vars

\* ================================================================ claims
\* Helpers over the log and the output of the running session.
Start_Coord == Coord(log_file, log_pos)
\* the first event the session's reader replays
FirstPulled == ReplayFrom(log_file, log_pos) + 1
PulledEvents == IF reader.constructed THEN FirstPulled..reader.idx ELSE {}
EndsAtStart(e) == CoordOf(binlog[e]) = Start_Coord
IsOtherTable(ev) == ev.kind # "RotateEvent" /\ <<ev.schema, ev.table>> # table_path
\* the loop body has run to its end for event e
Completed(e) ==
    \/ e < reader.idx
    \/ e = reader.idx /\ (pc \in {"pull", "done"}
                            \/ (pc = "aborted" /\ error = "StreamError"))
Records(e) == {k \in 1..Len(out) : out[k].type = "RECORD" /\ out[k].ev = e}
Checkpoints(e) == {k \in 1..Len(out) : out[k].type = "STATE" /\ out[k].ev = e}
AllCheckpoints == {k \in 1..Len(out) : out[k].type = "STATE"}
AllRowsDelivered(e) == {i \in 1..binlog[e].nrows : <<e, i>> \notin delivered} = {}

\* C1. Resume idempotence: pulling an event that ends exactly at the
\* session's starting bookmark (any event kind, any table, first or later)
\* yields nothing and leaves the bookmark and the row counter as they were,
\* and the loop goes straight back to the pull; no Record or Checkpoint of
\* the output belongs to such an event.
C1_ResumeIdempotence ==
    /\ [][(/\ pc = "pull"
           /\ reader'.idx = reader.idx + 1
           /\ reader'.log_file = log_file
           /\ reader'.log_pos = log_pos)
          => (/\ out' = out
              /\ state' = state
              /\ persisted' = persisted
              /\ rows_saved' = rows_saved
              /\ pc' = "pull")]_vars
    /\ [](\A k \in 1..Len(out) :
            out[k].type \in {"RECORD", "STATE"} => ~EndsAtStart(out[k].ev))

\* C1 witness: a resumed session has pulled the tracked row event its bookmark
\* was taken at, whose rows an earlier session delivered, and yielded nothing.
C1_Witness ==
    /\ pc = "pull"
    /\ reader.idx >= 1
    /\ IsTracked(binlog[reader.idx])
    /\ EndsAtStart(reader.idx)
    /\ <<reader.idx, 1>> \in delivered
    /\ Len(out) = 1
    /\ CoordOf(state) = Start_Coord

\* C2. No loss across termination and resume: whenever the consumer holds a
\* checkpoint, every row of every tracked-table row event after the original
\* bookmark and at or before the checkpoint has had its Record yielded (in
\* this or an earlier session); and when a session has read the log to its
\* end, every row of every tracked-table row event after the original
\* bookmark has had its Record yielded in some session.
C2_NoLoss ==
    /\ \A e \in 1..Len(binlog) :
          (/\ IsTracked(binlog[e])
           /\ CoordLt(CoordOf(orig), CoordOf(binlog[e]))
           /\ CoordLe(CoordOf(binlog[e]), CoordOf(persisted)))
          => AllRowsDelivered(e)
    /\ pc = "done" =>
          \A e \in 1..Len(binlog) :
             (IsTracked(binlog[e]) /\ CoordLt(CoordOf(orig), CoordOf(binlog[e])))
             => AllRowsDelivered(e)

\* C2 witness: a session resumed from a checkpoint taken at a tracked row
\* event has skipped that event, delivered a later one and finished.
C2_Witness ==
    /\ pc = "done"
    /\ \E e1, e2 \in 1..Len(binlog) :
          /\ IsTracked(binlog[e1]) /\ IsTracked(binlog[e2])
          /\ CoordLt(CoordOf(orig), CoordOf(binlog[e1]))
          /\ EndsAtStart(e1)
          /\ e1 < e2
          /\ Records(e1) = {}
          /\ Records(e2) # {}
          /\ AllRowsDelivered(e1)

\* C3. Table isolation: while a non-skipped row event of another table is
\* pulled and processed, the bookmark's log_file and log_pos and the row
\* counter do not change and no Record is yielded, although the reader has
\* moved to the end of the event, past the bookmark.
C3_TableIsolation ==
    /\ [][(/\ pc \in Running
           /\ reader'.idx >= 1
           /\ reader'.idx = reader.idx + 1 \/ (reader'.idx = reader.idx /\ pc # "pull")
           /\ IsOtherTable(binlog'[reader'.idx])
           /\ CoordOf(binlog'[reader'.idx]) # Start_Coord)
          => (/\ CoordOf(state') = CoordOf(state)
              /\ rows_saved' = rows_saved
              /\ delivered' = delivered
              /\ \A k \in 1..Len(out') : k > Len(out) => out'[k].type = "STATE"
              /\ CoordOf(reader') = CoordOf(binlog'[reader'.idx])
              /\ CoordLt(CoordOf(state'), CoordOf(reader')))]_vars
    /\ [](\A k \in 1..Len(out) :
            out[k].type = "RECORD" => IsTracked(binlog[out[k].ev]))

\* C3 witness: after a tracked row event, a DeleteRowsEvent of another table
\* has been pulled and processed; the bookmark still is the first event's end.
C3_Witness ==
    /\ pc = "pull"
    /\ reader.idx = 2
    /\ IsTracked(binlog[1]) /\ ~EndsAtStart(1)
    /\ IsOtherTable(binlog[2]) /\ binlog[2].kind = "DeleteRowsEvent"
    /\ CoordOf(state) = CoordOf(binlog[1])
    /\ CoordOf(reader) = CoordOf(binlog[2])
    /\ Records(2) = {}

\* C4 as stated: a Checkpoint is yielded only for Rotation events and
\* tracked-table row events; a row event of another table yields no message.
C4_OtherTableSilent ==
    \A k \in AllCheckpoints :
        IsRotate(binlog[out[k].ev]) \/ IsTracked(binlog[out[k].ev])

\* the bookmark the checkpoint before position k carried, the starting
\* bookmark when there is none
CheckpointBefore(k) ==
    LET earlier == {j \in AllCheckpoints : j < k}
    IN  IF earlier = {} THEN Start_Coord
        ELSE CoordOf(out[CHOOSE j \in earlier : \A i \in earlier : i <= j].value)

\* C4 amended. A non-skipped row event of another table yields no Record and,
\* once processed, exactly one Checkpoint: the one of line 215, carrying the
\* bookmark unchanged (the coordinates of the checkpoint before it).
C4_OtherTableHeartbeatOnly ==
    \A e \in PulledEvents :
        (IsOtherTable(binlog[e]) /\ ~EndsAtStart(e)) =>
            /\ Records(e) = {}
            /\ Cardinality(Checkpoints(e)) = (IF Completed(e) THEN 1 ELSE 0)
            /\ \A k \in Checkpoints(e) :
                  /\ out[k].line = 215
                  /\ CoordOf(out[k].value) = CheckpointBefore(k)
                  /\ CoordLt(CoordOf(out[k].value), CoordOf(binlog[e]))

\* C4 witness: a row event of another table, pulled after a rotation, has
\* been processed and its one checkpoint carries the rotation target.
C4_Witness ==
    /\ pc = "pull"
    /\ reader.idx = 2
    /\ IsRotate(binlog[1]) /\ ~EndsAtStart(1)
    /\ IsOtherTable(binlog[2])
    /\ Cardinality(Checkpoints(2)) = 1
    /\ \A k \in Checkpoints(2) : CoordOf(out[k].value) = CoordOf(binlog[1])

\* the number of Records among the first k messages
RecordNo(k) == Cardinality({j \in 1..k : out[j].type = "RECORD"})
ThresholdCheckpoints == {k \in AllCheckpoints : out[k].line = 213}

\* C5 as stated: the threshold is evaluated per row. Whenever the count of
\* yielded Records has reached a multiple of UPDATE_BOOKMARK_PERIOD, a
\* Checkpoint comes before the next Record, also inside a multi-row event.
C5_ThresholdPerRow ==
    \A k \in 2..Len(out) :
        (/\ out[k].type = "RECORD"
         /\ RecordNo(k) > 1
         /\ (RecordNo(k) - 1) % UPDATE_BOOKMARK_PERIOD = 0)
        => out[k - 1].type = "STATE"

\* C6 as stated: a session that has yielded K * 1000 + r Records has yielded
\* at least K threshold checkpoints (line 213), however the rows were batched
\* into events; 2500 rows of WriteRowsEvents give at least two.
C6_CadenceCount ==
    pc = "done" =>
        Cardinality(ThresholdCheckpoints) >= rows_saved \div UPDATE_BOOKMARK_PERIOD

\* C7. Heartbeat: once the loop body has run to its end for a non-skipped
\* Rotation event or tracked-table row event (so before the next pull), the
\* output holds a Checkpoint yielded for that event that carries the
\* rotation target, respectively the reader's coordinate after the event.
C7_Heartbeat ==
    \A e \in PulledEvents :
        (/\ Completed(e)
         /\ ~EndsAtStart(e)
         /\ IsRotate(binlog[e]) \/ IsTracked(binlog[e]))
        => \E k \in Checkpoints(e) :
              /\ out[k].value.log_file = binlog[e].log_file
              /\ out[k].value.log_pos = binlog[e].log_pos
              /\ \A j \in Records(e) : j < k

\* C7 witness: a rotation and then a two-row event of the tracked table have
\* been processed; the loop is back at the pull.
C7_Witness ==
    /\ pc = "pull"
    /\ reader.idx = 2
    /\ IsRotate(binlog[1]) /\ ~EndsAtStart(1)
    /\ IsTracked(binlog[2]) /\ binlog[2].nrows = 2
    /\ Cardinality(Records(2)) = 2
    /\ Checkpoints(1) # {} /\ Checkpoints(2) # {}

\* C8 as stated: with the reader's coordinates increasing, no step of a
\* session moves the bookmark's (log_file, log_pos) backwards.
C8_BookmarkMonotone ==
    [][(pc \in Running) => CoordLe(CoordOf(state), CoordOf(state'))]_vars

\* C9. Output ordering: the Records and Checkpoints of the output are in the
\* order the events were pulled; the Records of one event are in row order;
\* no Record comes after a Checkpoint that carries its event's coordinate or
\* a later one; and a Checkpoint that carries a non-skipped tracked row
\* event's coordinate comes after the Records of all rows of that event.
C9_OutputOrder ==
    /\ \A a, b \in 2..Len(out) :
          a < b =>
            /\ out[a].ev <= out[b].ev
            /\ (/\ out[a].type = "RECORD" /\ out[b].type = "RECORD"
                /\ out[a].ev = out[b].ev)
               => out[a].row < out[b].row
            /\ (out[a].type = "STATE" /\ out[b].type = "RECORD")
               => CoordLt(CoordOf(out[a].value), CoordOf(binlog[out[b].ev]))
    /\ out # << >> => out[1].type = "ACTIVATE_VERSION"
    /\ \A k \in AllCheckpoints :
          \A e \in PulledEvents :
             (/\ IsTracked(binlog[e]) /\ ~EndsAtStart(e)
              /\ CoordOf(out[k].value) = CoordOf(binlog[e]))
             => \A i \in 1..binlog[e].nrows :
                   \E j \in Records(e) : j < k /\ out[j].row = i

\* C9 witness: two row events of the tracked table, the first of two rows,
\* have been processed, with their Records and Checkpoints in the output.
C9_Witness ==
    /\ pc = "pull"
    /\ reader.idx = 2
    /\ IsTracked(binlog[1]) /\ IsTracked(binlog[2])
    /\ Cardinality(Records(1)) = 2
    /\ Records(2) # {}
    /\ Checkpoints(1) # {} /\ Checkpoints(2) # {}

\* what the source answers makes a verification fail for the bookmark bm
BadSource(srv, bm) ==
    \/ srv.binlog_format # "ROW"
    \/ srv.binlog_row_image # "FULL"
    \/ ~\E j \in 1..Len(srv.binary_logs) : srv.binary_logs[j][1] = bm.log_file
    \/ \E j \in 1..Len(srv.binary_logs) :
          /\ srv.binary_logs[j][1] = bm.log_file
          /\ \A i \in 1..(j - 1) : srv.binary_logs[i][1] # bm.log_file
          /\ bm.log_pos > srv.binary_logs[j][2]

\* C10. Config gating: when the binlog format is not ROW, the row image is
\* not FULL, the bookmarked log file is not listed or the bookmarked offset
\* is past the listed size, sync_table raises with nothing yielded, the
\* version not written to the bookmark, and no reader constructed or pulled.
C10_ConfigGating ==
    BadSource(server, orig) =>
        /\ pc \in {"init", "failed"}
        /\ out = << >>
        /\ state = orig
        /\ state.version = None
        /\ ~reader.constructed
        /\ reader.idx = 0
        /\ binlog = << >>
        /\ pc = "failed" => error \in {"BadBinlogFormat", "BadBinlogRowImage",
                                       "LogFileMissing", "PositionAheadOfTail"}

\* C10 witness: the format is ROW but the row image is not FULL, and
\* sync_table has raised.
C10_Witness ==
    /\ pc = "failed"
    /\ server.binlog_format = "ROW"
    /\ error = "BadBinlogRowImage"

\* the size the listing records for a file, -1 when the file is not listed
ListedSize(listing, file) ==
    IF \E j \in 1..Len(listing) : listing[j][1] = file
    THEN listing[CHOOSE j \in 1..Len(listing) : listing[j][1] = file][2]
    ELSE -1

\* C11. Resume-position check: verify_log_file_exists succeeds exactly when
\* the bookmarked log file is in the listing and the bookmarked offset is at
\* most the size listed for that file (equal is accepted); it raises the
\* missing-file error when the file is not listed, whatever the offset, and
\* the position error only when the file is listed and the offset is greater.
\* With the binlog configuration in order, sync_table raises that error, and
\* goes on to stream exactly when there is none.
C11_ResumePositionCheck ==
    LET size == ListedSize(server.binary_logs, orig.log_file)
        expected == IF size = -1 THEN "LogFileMissing"
                    ELSE IF orig.log_pos > size THEN "PositionAheadOfTail"
                    ELSE ""
    IN  /\ verify_log_file_exists(server, orig.log_file, orig.log_pos) = expected
        /\ (verify_binlog_config(server) = "" /\ pc # "init") =>
              /\ pc = "failed" <=> expected # ""
              /\ pc = "failed" => error = expected

\* C11 witness: a session whose bookmarked offset equals the size listed for
\* its log file, in the second entry of the listing, has started streaming.
C11_Witness ==
    /\ pc = "pull"
    /\ orig.log_file = 2
    /\ Len(server.binary_logs) = 2
    /\ ListedSize(server.binary_logs, orig.log_file) = orig.log_pos
    /\ orig.log_pos > 0

\* C12. Version stability: in a session that has passed the verifications,
\* the output starts with the one ActivateVersion message; every Record (of
\* a Write, Update or DeleteRowsEvent) carries its version, and so does the
\* bookmark of every Checkpoint and the live bookmark; no step of the event
\* loop writes the bookmark's version.
C12_VersionStability ==
    /\ [](pc \in Running \cup {"done", "aborted"} =>
            /\ out # << >>
            /\ out[1].type = "ACTIVATE_VERSION"
            /\ out[1].version = stream_version
            /\ state.version = out[1].version
            /\ \A k \in 2..Len(out) :
                  /\ out[k].type # "ACTIVATE_VERSION"
                  /\ out[k].type = "RECORD" => out[k].version = out[1].version
                  /\ out[k].type = "STATE" => out[k].value.version = out[1].version)
    /\ [][(pc \in Running /\ pc' # "init") => state'.version = state.version]_vars

\* C12 witness: an UpdateRowsEvent and then a DeleteRowsEvent of the tracked
\* table have been processed, Records and Checkpoints of both are out.
C12_Witness ==
    /\ pc = "pull"
    /\ reader.idx = 2
    /\ IsTracked(binlog[1]) /\ binlog[1].kind = "UpdateRowsEvent"
    /\ IsTracked(binlog[2]) /\ binlog[2].kind = "DeleteRowsEvent"
    /\ Records(1) # {} /\ Records(2) # {}
    /\ Checkpoints(1) # {} /\ Checkpoints(2) # {}

RecordsOfKind(kinds) ==
    {k \in 1..Len(out) : out[k].type = "RECORD" /\ binlog[out[k].ev].kind \in kinds}

\* C13 as stated: whatever column list sync_table was given, every Record of
\* a tracked DeleteRowsEvent carries _sdc_deleted_at with the event's
\* timestamp as UTC, and no Record of a Write or UpdateRowsEvent carries it.
C13_DeleteTagged ==
    /\ \A k \in RecordsOfKind({"DeleteRowsEvent"}) :
          /\ SDC_DELETED_AT \in DOMAIN out[k].values
          /\ out[k].values[SDC_DELETED_AT] = <<"UTC", binlog[out[k].ev].timestamp>>
    /\ \A k \in RecordsOfKind({"WriteRowsEvent", "UpdateRowsEvent"}) :
          SDC_DELETED_AT \notin DOMAIN out[k].values

\* C13 amended. When the column list holds _sdc_deleted_at, every Record of a
\* tracked DeleteRowsEvent carries it with the event's own timestamp as UTC;
\* when the list does not hold it, the field is filtered out with the other
\* unselected columns and no Record carries it. No Record of a Write or
\* UpdateRowsEvent carries it either way.
C13_DeleteTaggedWhenSelected ==
    /\ \A k \in RecordsOfKind({"DeleteRowsEvent"}) :
          IF InList(SDC_DELETED_AT, columns)
          THEN /\ SDC_DELETED_AT \in DOMAIN out[k].values
               /\ out[k].values[SDC_DELETED_AT] = <<"UTC", binlog[out[k].ev].timestamp>>
          ELSE SDC_DELETED_AT \notin DOMAIN out[k].values
    /\ \A k \in RecordsOfKind({"WriteRowsEvent", "UpdateRowsEvent"}) :
          SDC_DELETED_AT \notin DOMAIN out[k].values

\* C13 witness: with _sdc_deleted_at selected, a WriteRowsEvent and then a
\* two-row DeleteRowsEvent of the tracked table have been processed.
C13_Witness ==
    /\ pc = "pull"
    /\ InList(SDC_DELETED_AT, columns)
    /\ reader.idx = 2
    /\ IsTracked(binlog[1]) /\ binlog[1].kind = "WriteRowsEvent"
    /\ IsTracked(binlog[2]) /\ binlog[2].kind = "DeleteRowsEvent"
    /\ Records(1) # {}
    /\ Cardinality(Records(2)) = 2

\* C14. Checkpoint immutability: what every yielded Checkpoint holds is the
\* bookmark state as it was at its yield, and no later step of the session
\* (rotation write, position advance, the log_file write of the
\* WriteRowsEvent loop) changes what an already yielded Checkpoint holds.
C14_CheckpointImmutable ==
    /\ [](\A k \in AllCheckpoints : value_of(out[k]) = out[k].value)
    /\ [][(pc \in Running) =>
            \A k \in AllCheckpoints :
                /\ k <= Len(out')
                /\ (value_of(out[k]))' = value_of(out[k])]_vars

\* C14 witness: the Checkpoint of a rotation has been yielded, and the
\* log_file write of a later WriteRowsEvent's row loop and then the position
\* advance have changed the live bookmark.
C14_Witness ==
    /\ pc = "yield_state"
    /\ reader.idx = 2
    /\ IsRotate(binlog[1]) /\ ~EndsAtStart(1)
    /\ IsTracked(binlog[2]) /\ binlog[2].kind = "WriteRowsEvent"
    /\ \E k \in Checkpoints(1) :
          /\ CoordOf(out[k].value) = CoordOf(binlog[1])
          /\ CoordOf(state) # CoordOf(out[k].value)

\* C15 as stated: when the session has aborted, in the pull of an event or
\* in the conversion of one of its rows, the live bookmark's (log_file,
\* log_pos) is what it was before that event was pulled (what the last
\* Checkpoint carries, the starting bookmark when there is none), no
\* Checkpoint carries that event's coordinate, and nothing more is yielded.
C15_NoPartialSuccess ==
    /\ [](pc = "aborted" =>
            /\ CoordOf(state) = CheckpointBefore(Len(out) + 1)
            /\ error = "ValueError" =>
                  /\ Checkpoints(reader.idx) = {}
                  /\ \A k \in AllCheckpoints :
                        CoordOf(out[k].value) # CoordOf(binlog[reader.idx]))
    /\ [][(pc = "aborted") => (out' = out /\ pc' = "aborted")]_vars

\* the tag of the row image a Record of event e is built from
ImageOf(e) == IF binlog[e].kind = "UpdateRowsEvent" THEN "after_values" ELSE "values"
\* row i of event e restricted to the selected columns
SelectedOf(e, i) ==
    [f \in {f \in RowFields(e, i) : InList(f, columns)} |-> <<ImageOf(e), e, i>>]
\* the loop body has run for event e as far as it ever will
Ended(e) == Completed(e) \/ (e = reader.idx /\ pc = "aborted" /\ error = "ValueError")

\* C16 as stated: a non-skipped tracked row event of k rows gets exactly k
\* Records, the i-th built from row i (new values, after-values, values)
\* restricted to the selected columns, also where a row has no selected
\* field; the row counter is the number of Records yielded; and once the
\* event is processed the bookmark is the reader's coordinate after it.
C16_RecordPerRow ==
    /\ \A e \in PulledEvents :
          (IsTracked(binlog[e]) /\ ~EndsAtStart(e) /\ Ended(e)) =>
             /\ Cardinality(Records(e)) = binlog[e].nrows
             /\ \A i \in 1..binlog[e].nrows :
                   \E k \in Records(e) :
                      /\ out[k].row = i
                      /\ \A f \in DOMAIN out[k].values \ {SDC_DELETED_AT} :
                            f \in DOMAIN SelectedOf(e, i)
                      /\ \A f \in DOMAIN SelectedOf(e, i) :
                            /\ f \in DOMAIN out[k].values
                            /\ out[k].values[f] = SelectedOf(e, i)[f]
             /\ \A a, b \in Records(e) : a < b => out[a].row < out[b].row
             /\ \E k \in Checkpoints(e) : CoordOf(out[k].value) = CoordOf(binlog[e])
             /\ e = reader.idx => CoordOf(state) = CoordOf(reader)
    /\ pc \in {"pull", "post", "yield_state", "done"} =>
          rows_saved = RecordNo(Len(out))

\* C17. Rotation handling: the pull of a RotateEvent, whatever schema and
\* table it reads with, leaves the bookmark's (log_file, log_pos) at the
\* rotation target, yields no Record and leaves the row counter alone; once
\* a non-skipped RotateEvent is processed it has exactly one Checkpoint, the
\* one of line 215, carrying the rotation target; a skipped one has none.
C17_RotationHandling ==
    /\ [][(/\ pc = "pull"
           /\ reader'.idx = reader.idx + 1
           /\ IsRotate(binlog'[reader'.idx]))
          => (/\ state'.log_file = binlog'[reader'.idx].log_file
              /\ state'.log_pos = binlog'[reader'.idx].log_pos
              /\ state'.version = state.version
              /\ out' = out
              /\ rows_saved' = rows_saved
              /\ delivered' = delivered)]_vars
    /\ [](\A e \in PulledEvents :
            IsRotate(binlog[e]) =>
               /\ Records(e) = {}
               /\ Cardinality(Checkpoints(e)) =
                     (IF Completed(e) /\ ~EndsAtStart(e) THEN 1 ELSE 0)
               /\ \A k \in Checkpoints(e) :
                     /\ out[k].line = 215
                     /\ CoordOf(out[k].value) = CoordOf(binlog[e]))

\* C17 witness: after a tracked row event, a RotateEvent that reads with the
\* tracked table's schema and table has been processed: the bookmark is in
\* the next file and the row counter still counts the first event's rows.
C17_Witness ==
    /\ pc = "pull"
    /\ reader.idx = 2
    /\ IsTracked(binlog[1]) /\ ~EndsAtStart(1)
    /\ IsRotate(binlog[2])
    /\ <<binlog[2].schema, binlog[2].table>> = table_path
    /\ CoordOf(state) = Coord(binlog[1].log_file + 1, 0)
    /\ rows_saved = binlog[1].nrows
    /\ Cardinality(Checkpoints(2)) = 1

\* C18. Net effect of the WriteRowsEvent log_file write: the (log_file,
\* log_pos) of every yielded Checkpoint is the session's starting bookmark,
\* the target of a RotateEvent pulled by then, or the reader's coordinate
\* after a tracked row event pulled by then; its log_file is the file the
\* reader was in at the yield, so the starting log_file never comes out
\* paired with an offset of a later file.
C18_NetEffect ==
    \A k \in AllCheckpoints :
        /\ \/ CoordOf(out[k].value) = Start_Coord
           \/ \E e \in PulledEvents :
                 /\ e <= out[k].ev
                 /\ IsRotate(binlog[e]) \/ IsTracked(binlog[e])
                 /\ CoordOf(out[k].value) = CoordOf(binlog[e])
        /\ out[k].value.log_file = binlog[out[k].ev].log_file

\* C18 witness: after a rotation to the next file, a two-row WriteRowsEvent
\* of the tracked table has been processed; its Checkpoint is out and
\* carries the event's coordinate in the new file.
C18_Witness ==
    /\ pc = "pull"
    /\ reader.idx = 2
    /\ IsRotate(binlog[1]) /\ binlog[1].log_file > log_file
    /\ IsTracked(binlog[2]) /\ binlog[2].kind = "WriteRowsEvent"
    /\ binlog[2].nrows = 2
    /\ Cardinality(Records(2)) = 2
    /\ \E k \in Checkpoints(2) : CoordOf(out[k].value) = CoordOf(binlog[2])

\* C19. Checkpoints are ordered: with the reader's coordinates increasing,
\* the Checkpoints of a session are non-decreasing in (log_file, log_pos);
\* none is past the reader's coordinate, at its yield or now; and the
\* Checkpoints yielded for one event (lines 213 and 215) hold the same
\* bookmark.
C19_CheckpointsOrdered ==
    /\ \A a, b \in AllCheckpoints :
          /\ a < b => CoordLe(CoordOf(out[a].value), CoordOf(out[b].value))
          /\ out[a].ev = out[b].ev => out[a].value = out[b].value
    /\ \A k \in AllCheckpoints :
          /\ CoordLe(CoordOf(out[k].value), CoordOf(binlog[out[k].ev]))
          /\ CoordLe(CoordOf(out[k].value), CoordOf(reader))

\* C19 witness: an event that brought the row counter to a multiple of
\* UPDATE_BOOKMARK_PERIOD has been processed and has two Checkpoints, the
\* threshold one and the heartbeat.
C19_Witness ==
    /\ pc = "pull"
    /\ rows_saved > 0
    /\ \E a, b \in AllCheckpoints :
          /\ a < b
          /\ out[a].ev = out[b].ev
          /\ out[a].line = 213 /\ out[b].line = 215
          /\ CoordOf(out[a].value) = CoordOf(binlog[out[a].ev])
====
